---- MODULE Spec2Model ----
(***************************************************************************)
(* Model of src/visor/db.go: CheckDatabase, rebuildCorruptDB,              *)
(* ResetCorruptDB, handleCorruptDB, OpenDB, moveCorruptDB,                 *)
(* makeCorruptDBPath, shaFileID and corruptedBlocks.                       *)
(*                                                                         *)
(* The chain walker (Blockchain.WalkChain), the signature check, the       *)
(* history index (historydb) and the storage engine (dbutil / bolt) are    *)
(* collaborators whose code is not part of db.go; they are modelled from   *)
(* their documented interface.                                             *)
(***************************************************************************)
EXTENDS Naturals, Integers, Sequences, FiniteSets, TLC

(***************************************************************************)
(* Bounds of the model.                                                    *)
(***************************************************************************)
\* Largest number of blocks a chain of the model holds (head <= MaxBlocks-1).
MaxBlocks == 2
\* Number of ResetCorruptDB runs made one after the other on the same store.
MaxRuns == 2
\* Number of Store calls each verification worker makes before it joins.
MaxStores == 2

(***************************************************************************)
(* Program constants.                                                      *)
(***************************************************************************)
\* db.go:25  BlockchainVerifyTheadNum = 4
BlockchainVerifyTheadNum == 4
\* db.go:249 sum[:8]
FingerprintBytes == 8

\* Addresses a block's transactions touch (the key of the history index).
Addrs == {"a1", "a2"}

\* What the signature check reports for a block: no error, the typed
\* blockdb.ErrMissingSignature, or an error of any other type (an invalid
\* signature reported by the cipher package as a plain error).
SigStates == {"ok", "ErrMissingSignature", "ErrInvalidSignature"}

Blocks == [addr : Addrs, sig : SigStates]

(***************************************************************************)
(* Errors: the dynamic type of a Go error value and, for ErrCorruptDB,     *)
(* the type of the error it embeds.                                        *)
(***************************************************************************)
Err(t) == [type |-> t, cause |-> "nil"]
Nil == Err("nil")
\* ErrCorruptDB{err}  (db.go:30-32, db.go:97)
ErrCorruptDB(e) == [type |-> "ErrCorruptDB", cause |-> e.type]
\* fmt.Errorf("...: %v", err): a plain error that mentions the cause.
Errorf(e) == [type |-> "error", cause |-> e.type]

(***************************************************************************)
(* The derived (history) index: for every address the sequence numbers of  *)
(* the blocks that touched it, in the order they were parsed.              *)
(***************************************************************************)
EmptyIndex == [a \in Addrs |-> << >>]

\* historydb.Erase
Erase(idx) == EmptyIndex

\* historydb.ParseBlock: the incremental index-building step for block seq.
ParseBlock(idx, b, seq) == [idx EXCEPT ![b.addr] = Append(@, seq)]

\* The index built incrementally, block by block, from an empty index.
RECURSIVE ReplayFrom(_, _, _)
ReplayFrom(idx, blocks, k) ==
    IF k > Len(blocks) THEN idx
    ELSE ReplayFrom(ParseBlock(idx, blocks[k], k - 1), blocks, k + 1)

Replay(blocks) == ReplayFrom(EmptyIndex, blocks, 1)

\* The index with the entry of block seq lost.
RECURSIVE Without(_, _)
Without(s, x) ==
    IF s = << >> THEN << >>
    ELSE IF Head(s) = x THEN Without(Tail(s), x)
    ELSE << Head(s) >> \o Without(Tail(s), x)

DropEntry(idx, seq) == [a \in Addrs |-> Without(idx[a], seq)]

Range(s) == {s[i] : i \in 1..Len(s)}

\* historydb.Verify: the per-block consistency check of the index.
HistoryVerify(idx, b, seq) ==
    IF seq \in Range(idx[b.addr]) THEN Nil ELSE Err("ErrHistoryDBCorrupted")

\* Blockchain.VerifySignature: the error the signature check reports.
VerifySignature(b) == IF b.sig = "ok" THEN Nil ELSE Err(b.sig)

\* verifyFunc (db.go:82-90): signature first, then the index.
verifyFunc(idx, b, seq) ==
    IF VerifySignature(b).type # "nil" THEN VerifySignature(b)
    ELSE HistoryVerify(idx, b, seq)

(***************************************************************************)
(* Store files.                                                            *)
(***************************************************************************)
\* A store file's contents: whether the blocks bucket exists, the chain and
\* the persisted index.
Store(bkt, blocks, idx) == [bkt |-> bkt, blocks |-> blocks, index |-> idx]

\* What bolt.Open creates at a path that holds no file.
EmptyStore == Store(FALSE, << >>, EmptyIndex)

Chains == UNION {[1..n -> Blocks] : n \in 0..MaxBlocks}

\* The index states a store can be found in: consistent, erased, or with one
\* block's entry lost.
IndexStates(blocks) ==
    {Replay(blocks), EmptyIndex}
      \cup {DropEntry(Replay(blocks), k - 1) : k \in 1..Len(blocks)}

InitialStores ==
    {EmptyStore}
      \cup UNION {{Store(TRUE, c, i) : i \in IndexStates(c)} : c \in Chains}

Consistent(st) == st.index = Replay(st.blocks)

(***************************************************************************)
(* Paths and the quarantine name.  A path is a sequence of one-character   *)
(* strings.                                                                *)
(***************************************************************************)
Sep == "/"

\* The alphabet of base64.StdEncoding (RFC 4648 section 4).
StdAlphabet ==
    << "A","B","C","D","E","F","G","H","I","J","K","L","M",
       "N","O","P","Q","R","S","T","U","V","W","X","Y","Z",
       "a","b","c","d","e","f","g","h","i","j","k","l","m",
       "n","o","p","q","r","s","t","u","v","w","x","y","z",
       "0","1","2","3","4","5","6","7","8","9","+","/" >>

\* The alphabet of base64.URLEncoding (RFC 4648 section 5): the URL and
\* filename safe alphabet.
URLAlphabet ==
    [i \in 1..64 |-> IF i = 63 THEN "-" ELSE IF i = 64 THEN "_"
                     ELSE StdAlphabet[i]]

\* Bytes i..j of s.
Slice(s, i, j) == [k \in 1..(j - i + 1) |-> s[i + k - 1]]

\* base64 without padding over alphabet abc (Encoding.Encode with NoPadding):
\* three bytes give four characters, a remainder of two bytes three
\* characters, a remainder of one byte two characters.
\* The character for the six bits of v above divisor d.
Sextet(abc, v, d) == abc[((v \div d) % 64) + 1]

RECURSIVE EncodeRaw(_, _)
EncodeRaw(abc, bytes) ==
    LET n == Len(bytes) IN
    IF n = 0 THEN << >>
    ELSE IF n = 1 THEN
        LET v == bytes[1] * 65536 IN
        << Sextet(abc, v, 262144), Sextet(abc, v, 4096) >>
    ELSE IF n = 2 THEN
        LET v == bytes[1] * 65536 + bytes[2] * 256 IN
        << Sextet(abc, v, 262144), Sextet(abc, v, 4096),
           Sextet(abc, v, 64) >>
    ELSE
        LET v == bytes[1] * 65536 + bytes[2] * 256 + bytes[3] IN
        << Sextet(abc, v, 262144), Sextet(abc, v, 4096),
           Sextet(abc, v, 64), Sextet(abc, v, 1) >>
          \o EncodeRaw(abc, Slice(bytes, 4, n))

\* base64.RawStdEncoding.EncodeToString(sum[:8])  (db.go:249)
EncodeSum(sum) == EncodeRaw(StdAlphabet, Slice(sum, 1, FingerprintBytes))

\* The index of the last separator of p, 0 when it has none.
RECURSIVE LastSep(_, _)
LastSep(p, i) ==
    IF i = 0 THEN 0 ELSE IF p[i] = Sep THEN i ELSE LastSep(p, i - 1)

\* filepath.Split: the directory (with its trailing separator) and the file.
SplitDir(p) == Slice(p, 1, LastSep(p, Len(p)))
SplitFile(p) == Slice(p, LastSep(p, Len(p)) + 1, Len(p))

\* filepath.Clean for paths without "." and ".." elements: runs of
\* separators collapse to one and a trailing separator is dropped (the root
\* "/" stays, an empty path becomes ".").
RECURSIVE Collapse(_)
Collapse(p) ==
    IF Len(p) < 2 THEN p
    ELSE IF p[1] = Sep /\ p[2] = Sep THEN Collapse(Tail(p))
    ELSE << p[1] >> \o Collapse(Tail(p))

Clean(p) ==
    LET c == Collapse(p) IN
    IF c = << >> THEN << "." >>
    ELSE IF Len(c) > 1 /\ c[Len(c)] = Sep THEN Slice(c, 1, Len(c) - 1)
    ELSE c

\* filepath.Join(dir, file): empty elements are ignored, the rest joined
\* with a separator and cleaned.
Join(dir, file) ==
    IF dir = << >> /\ file = << >> THEN << >>
    ELSE IF dir = << >> THEN Clean(file)
    ELSE IF file = << >> THEN Clean(dir)
    ELSE Clean(dir \o << Sep >> \o file)

CorruptInfix == << ".", "c", "o", "r", "r", "u", "p", "t", "." >>

\* makeCorruptDBPath (db.go:221-232), given the file's SHA-1 sum.
makeCorruptDBPath(dbPath, sum) ==
    Join(SplitDir(dbPath), SplitFile(dbPath) \o CorruptInfix \o EncodeSum(sum))

\* The directory a path's file lives in, as filepath.Dir reports it.
Dir(p) == Clean(SplitDir(p))

(***************************************************************************)
(* State.                                                                  *)
(***************************************************************************)
VARIABLES
    fs,             \* the filesystem: path of every existing file -> contents
    db,             \* the handle the running ResetCorruptDB was given
    open,           \* the ids of the store handles that are open
    quit,           \* whether the quit channel is closed
    workers,        \* BlockchainVerifyTheadNum of this process
    run,            \* number of the ResetCorruptDB run (1, 2, ...)
    pc,             \* position of the goroutine running ResetCorruptDB
    blocksBktExist, \* CheckDatabase's local (db.go:64)
    next,           \* WalkChain: next sequence number to hand to a worker
    inflight,       \* WalkChain: sequence numbers being verified
    verified,       \* WalkChain: sequence numbers verified without error
    walkErr,        \* WalkChain: the first failure surfaced / its result
    gpc,            \* position of the goroutine running rebuildCorruptDB
    txIdx,          \* the index as seen inside the rebuild's write transaction
    i,              \* rebuildCorruptDB's loop variable
    headSeq,        \* rebuildCorruptDB's headSeq
    rebErr,         \* what rebuildCorruptDB returns
    errC,           \* the channel errC (capacity 1)
    wg,             \* the counter of the sync.WaitGroup
    checkErr,       \* what CheckDatabase returns
    corruptDBPath,  \* makeCorruptDBPath's result
    res,            \* what ResetCorruptDB returns: [db, err]
    fsStart,        \* history: the filesystem when the run started
    effects,        \* history: mutations of the store performed by the run
    faults,         \* history: storage/filesystem calls that failed in the run
    walkCancelled,  \* history: the walk ended on quit with blocks unverified
    closedBytes,    \* history: the store file's contents when db.Close returned
    trail,          \* history: lifecycle states the run went through
    quitAt,         \* history: where the run was when quit was closed
    rebLog,         \* history: what the rebuild's write transaction did
    cbN,            \* corruptedBlocks: the number of workers that call Store
    cbV,            \* corruptedBlocks.v: the keys of the map
    cbLock,         \* corruptedBlocks.lock: its holder, or Unlocked
    cbW,            \* each worker's position in Store: [pc, seq, tmp, left]
    cbR,            \* the position in BlockSeqs: [pc, iter, seqs, joined]
    cbRet,          \* what BlockSeqs, called after the join, returned last
    cbStored,       \* history: the sequence numbers whose Store returned
    cbDup           \* history: a sequence number was stored a second time

mainVars == << fs, db, open, quit, workers, run, pc, blocksBktExist, next,
           inflight, verified, walkErr, gpc, txIdx, i, headSeq, rebErr, errC,
           wg, checkErr, corruptDBPath, res, fsStart, effects, faults,
           walkCancelled, closedBytes, trail, quitAt, rebLog >>

cbVars == << cbN, cbV, cbLock, cbW, cbR, cbRet, cbStored, cbDup >>
vars == << mainVars, cbVars >>

walkVars == << next, inflight, verified, walkErr >>
rebuildVars == << gpc, txIdx, i, headSeq, rebErr, errC, wg >>
histVars ==
    << fsStart, effects, faults, walkCancelled, closedBytes, trail, quitAt,
       rebLog >>

\* An entry of rebLog: an operation on the write transaction; seq is the
\* block's sequence number for "parse" and 0 otherwise.
Op(op, seq) == [op |-> op, seq |-> seq]

\* The store path of the model: d/f.
DbPath == << "d", "/", "f" >>

\* The directories that exist.
Dirs == {Dir(DbPath)}

\* The leading bytes of SHA-1 sums the model draws: sha1 is not computed, a
\* file's sum is any of these.
Sums == {[k \in 1..FingerprintBytes |-> IF k = 3 THEN b ELSE 0] :
            b \in {0, 63}}

NoHandle == [id |-> 0, path |-> << >>, readOnly |-> FALSE]
Handle(id, path, ro) == [id |-> id, path |-> path, readOnly |-> ro]
NoPath == << >>

\* The store the handle db is open on.
TheStore == fs[db.path]
NBlocks == Len(TheStore.blocks)

\* The state ResetCorruptDB is called in.
InitMain ==
    /\ \E st \in InitialStores : fs = [p \in {DbPath} |-> st]
    /\ \E ro \in BOOLEAN : db = Handle(1, DbPath, ro)
    /\ open = {1}
    /\ quit = FALSE
    /\ workers \in {1, BlockchainVerifyTheadNum}
    /\ run = 1
    /\ pc = "view"
    /\ blocksBktExist = FALSE
    /\ next = 0
    /\ inflight = {}
    /\ verified = {}
    /\ walkErr = Nil
    /\ gpc = "idle"
    /\ txIdx = EmptyIndex
    /\ i = 0
    /\ headSeq = 0
    /\ rebErr = Nil
    /\ errC = << >>
    /\ wg = 0
    /\ checkErr = Nil
    /\ corruptDBPath = NoPath
    /\ res = [db |-> NoHandle, err |-> Nil]
    /\ fsStart = fs
    /\ effects = {}
    /\ faults = {}
    /\ walkCancelled = FALSE
    /\ closedBytes = EmptyStore
    /\ trail = << "CHECKING" >>
    /\ quitAt = "none"
    /\ rebLog = << >>

\* The lock's value when no one holds it, and the reader's id as a holder.
Unlocked == 0
Reader == BlockchainVerifyTheadNum + 1
CbWorkers == 1..cbN

\* The sequence numbers workers store.
Seqs == 0..(MaxBlocks - 1)

\* db.go:40-44: newCorruptedBlocks, with n workers about to call Store.
newCorruptedBlocks(n) ==
    /\ cbN = n
    /\ cbV = {}
    /\ cbLock = Unlocked
    /\ cbW = [w \in 1..n |-> [pc |-> "idle", seq |-> 0, tmp |-> {},
                              left |-> MaxStores]]
    /\ cbR = [pc |-> "idle", iter |-> {}, seqs |-> << >>, joined |-> FALSE]
    /\ cbRet = [seqs |-> << >>, joined |-> FALSE]
    /\ cbStored = {}
    /\ cbDup = FALSE

\* CheckDatabase does not use corruptedBlocks: in a run of ResetCorruptDB
\* none exists.
Init ==
    /\ InitMain
    /\ newCorruptedBlocks(0)

(***************************************************************************)
(* The environment closes the quit channel.                                *)
(***************************************************************************)
Cancel ==
    /\ ~quit
    /\ pc # "done"
    /\ quit' = TRUE
    /\ quitAt' = IF gpc \in {"begin", "erase", "head", "loop"}
                   THEN "rebuild"
                   ELSE "other"
    /\ UNCHANGED << fs, db, open, workers, run, pc, blocksBktExist, walkVars,
                    rebuildVars, checkErr, corruptDBPath, res, fsStart,
                    effects, faults, walkCancelled, closedBytes, trail,
                    rebLog >>
    /\ UNCHANGED cbVars

(***************************************************************************)
(* CheckDatabase (db.go:63-119).                                           *)
(***************************************************************************)
\* CheckDatabase returns err to ResetCorruptDB.
Return(err) ==
    /\ checkErr' = err
    /\ pc' = "ret"

\* A check that goes on to the walk whether or not the bucket exists.
View_NoEarlyReturn ==
    /\ pc = "view"
    /\ \E ok \in BOOLEAN :
         /\ blocksBktExist' = IF ok THEN TheStore.bkt ELSE FALSE
         /\ faults' = IF ok THEN faults ELSE faults \cup {"view"}
         /\ pc' = "newbc"
         /\ UNCHANGED checkErr
    /\ UNCHANGED << fs, db, open, quit, workers, run, walkVars, rebuildVars,
                    corruptDBPath, res, fsStart, effects, walkCancelled,
                    closedBytes, trail >>
    /\ UNCHANGED << quitAt, rebLog >>
    /\ UNCHANGED cbVars

\* db.go:64-73: the read transaction that looks for the blocks bucket.  The
\* error db.View returns is dropped; when the transaction fails the closure
\* never runs and blocksBktExist keeps its zero value.
View ==
    /\ pc = "view"
    /\ \E ok \in BOOLEAN :
         /\ blocksBktExist' = IF ok THEN TheStore.bkt ELSE FALSE
         /\ faults' = IF ok THEN faults ELSE faults \cup {"view"}
         /\ IF blocksBktExist'
              THEN pc' = "newbc" /\ UNCHANGED checkErr
              ELSE Return(Nil)
    /\ UNCHANGED << fs, db, open, quit, workers, run, walkVars, rebuildVars,
                    corruptDBPath, res, fsStart, effects, walkCancelled,
                    closedBytes, trail >>
    /\ UNCHANGED << quitAt, rebLog >>
    /\ UNCHANGED cbVars

\* db.go:75-78: NewBlockchain.
NewBlockchain ==
    /\ pc = "newbc"
    /\ \/ /\ pc' = "walk"
          /\ UNCHANGED << checkErr, faults >>
       \/ /\ Return(Err("ErrIO"))
          /\ faults' = faults \cup {"newbc"}
    /\ UNCHANGED << fs, db, open, quit, workers, run, blocksBktExist, walkVars,
                    rebuildVars, corruptDBPath, res, fsStart, effects,
                    walkCancelled, closedBytes, trail >>
    /\ UNCHANGED << quitAt, rebLog >>
    /\ UNCHANGED cbVars

(***************************************************************************)
(* Blockchain.WalkChain(workers, verifyFunc, quit)  (called at db.go:92).  *)
(***************************************************************************)
\* A block is handed to a free worker; none is once quit is closed.
Dispatch ==
    /\ pc = "walk"
    /\ ~quit
    /\ walkErr = Nil
    /\ next < NBlocks
    /\ Cardinality(inflight) < workers
    /\ inflight' = inflight \cup {next}
    /\ next' = next + 1
    /\ UNCHANGED << fs, db, open, quit, workers, run, pc, blocksBktExist,
                    verified, walkErr, rebuildVars, checkErr, corruptDBPath,
                    res, histVars >>
    /\ UNCHANGED cbVars

\* A worker finishes block s: verifyFunc's error, or the error of its read
\* transaction.  The first failure is kept; after quit none is.
WorkerFinish(s) ==
    /\ pc = "walk"
    /\ walkErr = Nil
    /\ s \in inflight
    /\ \E r \in {verifyFunc(TheStore.index, TheStore.blocks[s + 1], s),
                 Err("ErrIO")} :
         /\ inflight' = inflight \ {s}
         /\ verified' = IF r = Nil THEN verified \cup {s} ELSE verified
         /\ walkErr' = IF quit THEN Nil ELSE r
         /\ faults' = IF r.type = "ErrIO" THEN faults \cup {"walk"} ELSE faults
    /\ UNCHANGED << fs, db, open, quit, workers, run, pc, blocksBktExist, next,
                    rebuildVars, checkErr, corruptDBPath, res, fsStart,
                    effects, walkCancelled, closedBytes, trail >>
    /\ UNCHANGED << quitAt, rebLog >>
    /\ UNCHANGED cbVars

\* WalkChain returns: the first failure, or nil when every block was
\* verified or quit was closed and the blocks in flight are finished.
WalkReturn ==
    /\ pc = "walk"
    /\ \/ walkErr # Nil
       \/ inflight = {} /\ (quit \/ next = NBlocks)
    /\ inflight' = {}
    /\ walkCancelled' = (walkErr = Nil /\ verified # 0..(NBlocks - 1))
    /\ pc' = "switch"
    /\ UNCHANGED << fs, db, open, quit, workers, run, blocksBktExist, next,
                    verified, walkErr, rebuildVars, checkErr, corruptDBPath,
                    res, fsStart, effects, faults, closedBytes, trail >>
    /\ UNCHANGED << quitAt, rebLog >>
    /\ UNCHANGED cbVars

(***************************************************************************)
(* CheckDatabase, the switch on WalkChain's error (db.go:93-118).          *)
(***************************************************************************)
\* A switch without the nil case whose default is the rebuild.
Classify_RebuildByDefault(err) ==
    IF err.type = "ErrMissingSignature" THEN "FATAL" ELSE "REPAIRABLE"

\* A switch whose default is the quarantine.
Classify_DefaultFatal(err) ==
    CASE err.type = "nil" -> "HEALTHY"
      [] err.type = "ErrHistoryDBCorrupted" -> "REPAIRABLE"
      [] OTHER -> "FATAL"

\* The classification the type switch makes.
Classify(err) ==
    CASE err.type = "nil" -> "HEALTHY"
      [] err.type = "ErrMissingSignature" -> "FATAL"
      [] err.type = "ErrHistoryDBCorrupted" -> "REPAIRABLE"
      [] OTHER -> "ERROR"

CheckSwitch ==
    /\ pc = "switch"
    /\ CASE Classify(walkErr) = "HEALTHY" ->
              /\ Return(Nil)
              /\ UNCHANGED << rebuildVars, trail, rebLog >>
         [] Classify(walkErr) = "FATAL" ->
              /\ Return(ErrCorruptDB(walkErr))
              /\ UNCHANGED << rebuildVars, trail, rebLog >>
         [] Classify(walkErr) = "REPAIRABLE" ->
              \* db.go:99-106: errC, wg.Add(1), go func()
              /\ errC' = << >>
              /\ wg' = 1
              /\ gpc' = "begin"
              /\ pc' = "wait"
              /\ trail' = Append(trail, "REPAIRING")
              /\ rebLog' = << >>
              /\ UNCHANGED << checkErr, txIdx, i, headSeq, rebErr >>
         [] OTHER ->
              /\ Return(walkErr)
              /\ UNCHANGED << rebuildVars, trail, rebLog >>
    /\ UNCHANGED << fs, db, open, quit, workers, run, blocksBktExist, walkVars,
                    corruptDBPath, res, fsStart, effects, faults,
                    walkCancelled, closedBytes, quitAt >>
    /\ UNCHANGED cbVars

\* A receive that does not wait for the wait group.
WaitSelect_NoWait ==
    /\ pc = "wait"
    /\ Return(IF errC # << >> THEN Head(errC) ELSE Nil)
    /\ errC' = IF errC # << >> THEN Tail(errC) ELSE errC
    /\ UNCHANGED << fs, db, open, quit, workers, run, blocksBktExist, walkVars,
                    gpc, txIdx, i, headSeq, rebErr, wg, corruptDBPath, res,
                    histVars >>
    /\ UNCHANGED cbVars

\* db.go:108-115: wg.Wait() and the non-blocking receive from errC.
WaitSelect ==
    /\ pc = "wait"
    /\ wg = 0
    /\ Return(IF errC # << >> THEN Head(errC) ELSE Nil)
    /\ errC' = IF errC # << >> THEN Tail(errC) ELSE errC
    /\ UNCHANGED << fs, db, open, quit, workers, run, blocksBktExist, walkVars,
                    gpc, txIdx, i, headSeq, rebErr, wg, corruptDBPath, res,
                    histVars >>
    /\ UNCHANGED cbVars

(***************************************************************************)
(* rebuildCorruptDB (db.go:121-154), run by the goroutine of db.go:102.    *)
(***************************************************************************)
\* A failure that leaves what the transaction wrote so far in the store.
Abort_KeepsPartial(err, fault) ==
    /\ rebErr' = err
    /\ gpc' = "send"
    /\ txIdx' = EmptyIndex
    /\ faults' = faults \cup fault
    /\ rebLog' = IF rebLog = << >> THEN rebLog
                                   ELSE Append(rebLog, Op("abort", 0))
    /\ fs' = [fs EXCEPT ![db.path].index = txIdx]
    /\ UNCHANGED << i, headSeq >>

\* The closure returns err: db.Update rolls the transaction back (nothing
\* of txIdx is persisted) and rebuildCorruptDB returns err.
Abort(err, fault) ==
    /\ rebErr' = err
    /\ gpc' = "send"
    /\ txIdx' = EmptyIndex
    /\ faults' = faults \cup fault
    /\ rebLog' = IF rebLog = << >> THEN rebLog
                                   ELSE Append(rebLog, Op("abort", 0))
    /\ UNCHANGED << fs, i, headSeq >>

\* db.Update begins the write transaction; a read-only store has none.
RbBegin ==
    /\ gpc = "begin"
    /\ \/ /\ ~db.readOnly
          /\ txIdx' = TheStore.index
          /\ gpc' = "erase"
          /\ effects' = effects \cup {"update"}
          /\ rebLog' = Append(rebLog, Op("begin", 0))
          /\ UNCHANGED << fs, i, headSeq, rebErr, faults >>
       \/ /\ Abort(Err("ErrIO"), {"update"})
          /\ UNCHANGED effects
    /\ UNCHANGED << db, open, quit, workers, run, pc, blocksBktExist, walkVars,
                    errC, wg, checkErr, corruptDBPath, res, fsStart,
                    walkCancelled, closedBytes, trail, quitAt >>
    /\ UNCHANGED cbVars

\* A rebuild that does not erase the index first.
RbErase_NoErase ==
    /\ gpc = "erase"
    /\ gpc' = "head"
    /\ UNCHANGED << fs, txIdx, i, headSeq, rebErr, faults, effects, rebLog >>
    /\ UNCHANGED << db, open, quit, workers, run, pc, blocksBktExist, walkVars,
                    errC, wg, checkErr, corruptDBPath, res, fsStart,
                    walkCancelled, closedBytes, trail, quitAt >>
    /\ UNCHANGED cbVars

\* db.go:124-126: history.Erase(tx).
RbErase ==
    /\ gpc = "erase"
    /\ \/ /\ txIdx' = Erase(txIdx)
          /\ gpc' = "head"
          /\ effects' = effects \cup {"erase"}
          /\ rebLog' = Append(rebLog, Op("erase", 0))
          /\ UNCHANGED << fs, i, headSeq, rebErr, faults >>
       \/ /\ Abort(Err("ErrIO"), {"erase"})
          /\ UNCHANGED effects
    /\ UNCHANGED << db, open, quit, workers, run, pc, blocksBktExist, walkVars,
                    errC, wg, checkErr, corruptDBPath, res, fsStart,
                    walkCancelled, closedBytes, trail, quitAt >>
    /\ UNCHANGED cbVars

\* A rebuild whose loop starts at block 1.
RbHeadSeq_StartsAtOne ==
    /\ gpc = "head"
    /\ \/ /\ NBlocks > 0
          /\ headSeq' = NBlocks - 1
          /\ i' = 1
          /\ gpc' = "loop"
          /\ UNCHANGED << fs, txIdx, rebErr, faults, rebLog >>
       \/ /\ NBlocks = 0
          /\ Abort(Err("ErrNoHead"), {})
       \/ Abort(Err("ErrIO"), {"headseq"})
    /\ UNCHANGED << db, open, quit, workers, run, pc, blocksBktExist, walkVars,
                    errC, wg, checkErr, corruptDBPath, res, fsStart, effects,
                    walkCancelled, closedBytes, trail, quitAt >>
    /\ UNCHANGED cbVars

\* db.go:128-135: bc.HeadSeq(tx).
RbHeadSeq ==
    /\ gpc = "head"
    /\ \/ /\ NBlocks > 0
          /\ headSeq' = NBlocks - 1
          /\ i' = 0
          /\ gpc' = "loop"
          /\ UNCHANGED << fs, txIdx, rebErr, faults, rebLog >>
       \/ /\ NBlocks = 0
          /\ Abort(Err("ErrNoHead"), {})
       \/ Abort(Err("ErrIO"), {"headseq"})
    /\ UNCHANGED << db, open, quit, workers, run, pc, blocksBktExist, walkVars,
                    errC, wg, checkErr, corruptDBPath, res, fsStart, effects,
                    walkCancelled, closedBytes, trail, quitAt >>
    /\ UNCHANGED cbVars

\* The closure returns nil: db.Update commits the transaction, and
\* rebuildCorruptDB returns the commit's error.
Commit ==
    \/ /\ fs' = [fs EXCEPT ![db.path].index = txIdx]
       /\ rebErr' = Nil
       /\ effects' = effects \cup {"commit"}
       /\ rebLog' = Append(rebLog, Op("commit", 0))
       /\ UNCHANGED faults
    \/ /\ rebErr' = Err("ErrIO")
       /\ faults' = faults \cup {"commit"}
       /\ rebLog' = Append(rebLog, Op("abort", 0))
       /\ UNCHANGED << fs, effects >>

\* A rebuild that rolls its transaction back when it finds quit closed.
RbLoop_RollbackOnQuit ==
    /\ gpc = "loop"
    /\ IF i > headSeq
         THEN /\ Commit
              /\ gpc' = "send"
              /\ txIdx' = EmptyIndex
              /\ UNCHANGED << i, headSeq >>
         ELSE IF quit
         THEN /\ rebErr' = Nil
              /\ gpc' = "send"
              /\ txIdx' = EmptyIndex
              /\ rebLog' = Append(rebLog, Op("abort", 0))
              /\ UNCHANGED << fs, i, headSeq, faults, effects >>
         ELSE \/ /\ txIdx' = ParseBlock(txIdx, TheStore.blocks[i + 1], i)
                 /\ i' = i + 1
                 /\ rebLog' = Append(rebLog, Op("parse", i))
                 /\ UNCHANGED << fs, gpc, headSeq, rebErr, faults, effects >>
              \/ /\ Abort(Err("ErrIO"), {"getblock"})
                 /\ UNCHANGED effects
              \/ /\ Abort(Err("ErrIO"), {"parseblock"})
                 /\ UNCHANGED effects
    /\ UNCHANGED << db, open, quit, workers, run, pc, blocksBktExist, walkVars,
                    errC, wg, checkErr, corruptDBPath, res, fsStart,
                    walkCancelled, closedBytes, trail, quitAt >>
    /\ UNCHANGED cbVars

\* db.go:137-152: one pass of the loop, or its end.
RbLoop ==
    /\ gpc = "loop"
    /\ IF i > headSeq \/ quit
         THEN \* the loop is over, or <-quit is ready: return nil
              /\ Commit
              /\ gpc' = "send"
              /\ txIdx' = EmptyIndex
              /\ UNCHANGED << i, headSeq >>
         ELSE \/ /\ txIdx' = ParseBlock(txIdx, TheStore.blocks[i + 1], i)
                 /\ i' = i + 1
                 /\ rebLog' = Append(rebLog, Op("parse", i))
                 /\ UNCHANGED << fs, gpc, headSeq, rebErr, faults, effects >>
              \/ /\ Abort(Err("ErrIO"), {"getblock"})
                 /\ UNCHANGED effects
              \/ /\ Abort(Err("ErrIO"), {"parseblock"})
                 /\ UNCHANGED effects
    /\ UNCHANGED << db, open, quit, workers, run, pc, blocksBktExist, walkVars,
                    errC, wg, checkErr, corruptDBPath, res, fsStart,
                    walkCancelled, closedBytes, trail, quitAt >>
    /\ UNCHANGED cbVars

\* db.go:105: errC <- err.
RbSend ==
    /\ gpc = "send"
    /\ Len(errC) < 1
    /\ errC' = Append(errC, rebErr)
    /\ gpc' = "defer"
    /\ UNCHANGED << fs, db, open, quit, workers, run, pc, blocksBktExist,
                    walkVars, txIdx, i, headSeq, rebErr, wg, checkErr,
                    corruptDBPath, res, histVars >>
    /\ UNCHANGED cbVars

\* db.go:103: the deferred wg.Done().
RbDone ==
    /\ gpc = "defer"
    /\ wg' = wg - 1
    /\ gpc' = "idle"
    /\ UNCHANGED << fs, db, open, quit, workers, run, pc, blocksBktExist,
                    walkVars, txIdx, i, headSeq, rebErr, errC, checkErr,
                    corruptDBPath, res, histVars >>
    /\ UNCHANGED cbVars

(***************************************************************************)
(* ResetCorruptDB (db.go:158-170) and handleCorruptDB (db.go:173-189).     *)
(***************************************************************************)
\* ResetCorruptDB returns (h, err).
Finish(h, err) ==
    /\ res' = [db |-> h, err |-> err]
    /\ pc' = "done"
    /\ trail' = Append(trail, IF err = Nil THEN "HEALTHY" ELSE "FAILED")

\* A switch whose default case returns the handle along with the error.
ResetSwitch_KeepsHandle ==
    /\ pc = "ret"
    /\ CASE checkErr.type = "nil" -> Finish(db, Nil)
         [] checkErr.type = "ErrCorruptDB" ->
              /\ pc' = "close"
              /\ trail' = Append(trail, "QUARANTINING")
              /\ UNCHANGED res
         [] OTHER -> Finish(db, checkErr)
    /\ UNCHANGED << fs, db, open, quit, workers, run, blocksBktExist, walkVars,
                    rebuildVars, checkErr, corruptDBPath, fsStart, effects,
                    faults, walkCancelled, closedBytes >>
    /\ UNCHANGED << quitAt, rebLog >>
    /\ UNCHANGED cbVars

\* db.go:161-169: the switch on CheckDatabase's error.
ResetSwitch ==
    /\ pc = "ret"
    /\ CASE checkErr.type = "nil" -> Finish(db, Nil)
         [] checkErr.type = "ErrCorruptDB" ->
              /\ pc' = "close"
              /\ trail' = Append(trail, "QUARANTINING")
              /\ UNCHANGED res
         [] OTHER -> Finish(NoHandle, checkErr)
    /\ UNCHANGED << fs, db, open, quit, workers, run, blocksBktExist, walkVars,
                    rebuildVars, checkErr, corruptDBPath, fsStart, effects,
                    faults, walkCancelled,
                    closedBytes >>
    /\ UNCHANGED << quitAt, rebLog >>
    /\ UNCHANGED cbVars

\* A quarantine that goes on without the old handle being closed.
CloseDB_LeavesOpen ==
    /\ pc = "close"
    /\ effects' = effects \cup {"close"}
    /\ closedBytes' = TheStore
    /\ pc' = "sha"
    /\ UNCHANGED << open, res, trail, faults >>
    /\ UNCHANGED << fs, db, quit, workers, run, blocksBktExist, walkVars,
                    rebuildVars, checkErr, corruptDBPath, fsStart,
                    walkCancelled >>
    /\ UNCHANGED << quitAt, rebLog >>
    /\ UNCHANGED cbVars

\* db.go:174-179: db.Close().  When Close fails the handle is in whatever
\* state the storage engine left it.
CloseDB ==
    /\ pc = "close"
    /\ \/ /\ open' = open \ {db.id}
          /\ effects' = effects \cup {"close"}
          /\ closedBytes' = TheStore
          /\ pc' = "sha"
          /\ UNCHANGED << res, trail, faults >>
       \/ /\ \E o \in {open, open \ {db.id}} : open' = o
          /\ faults' = faults \cup {"close"}
          /\ Finish(NoHandle, Errorf(Err("ErrIO")))
          /\ UNCHANGED << effects, closedBytes >>
    /\ UNCHANGED << fs, db, quit, workers, run, blocksBktExist, walkVars,
                    rebuildVars, checkErr, corruptDBPath, fsStart,
                    walkCancelled >>
    /\ UNCHANGED << quitAt, rebLog >>
    /\ UNCHANGED cbVars

\* moveCorruptDB, first half (db.go:206-209): makeCorruptDBPath, which reads
\* the file to name it (shaFileID, db.go:236-252).
MakePath ==
    /\ pc = "sha"
    /\ \/ /\ \E sum \in Sums : corruptDBPath' = makeCorruptDBPath(db.path, sum)
          /\ pc' = "rename"
          /\ UNCHANGED << res, trail, faults >>
       \/ /\ faults' = faults \cup {"sha"}
          /\ Finish(NoHandle, Errorf(Err("ErrIO")))
          /\ UNCHANGED corruptDBPath
    /\ UNCHANGED << fs, db, open, quit, workers, run, blocksBktExist, walkVars,
                    rebuildVars, checkErr, fsStart, effects, walkCancelled,
                    closedBytes >>
    /\ UNCHANGED << quitAt, rebLog >>
    /\ UNCHANGED cbVars

\* A move made as a copy: the file stays at old.
Rename_Copy(files, old, new) ==
    [p \in DOMAIN files \cup {new} |->
        IF p = new THEN files[old] ELSE files[p]]

\* A rename that removes the file without putting it at new.
Rename_Drop(files, old, new) ==
    [p \in DOMAIN files \ {old} |-> files[p]]

\* os.Rename(old, new): atomic; it fails when the directory of new does not
\* exist, and replaces a file that is at new.
Rename(files, old, new) ==
    [p \in (DOMAIN files \ {old}) \cup {new} |->
        IF p = new THEN files[old] ELSE files[p]]

\* A move made as copy-then-remove: a failure after the copy leaves the file
\* at both paths.
MoveCorruptDB_CopyThenRemove ==
    /\ pc = "rename"
    /\ \/ /\ Dir(corruptDBPath) \in Dirs
          /\ fs' = Rename(fs, db.path, corruptDBPath)
          /\ effects' = effects \cup {"rename"}
          /\ pc' = "open"
          /\ UNCHANGED << res, trail, faults >>
       \/ /\ Dir(corruptDBPath) \in Dirs
          /\ fs' = Rename_Copy(fs, db.path, corruptDBPath)
          /\ faults' = faults \cup {"rename"}
          /\ Finish(NoHandle, Errorf(Err("ErrIO")))
          /\ UNCHANGED effects
    /\ UNCHANGED << db, open, quit, workers, run, blocksBktExist, walkVars,
                    rebuildVars, checkErr, corruptDBPath, fsStart,
                    walkCancelled, closedBytes >>
    /\ UNCHANGED << quitAt, rebLog >>
    /\ UNCHANGED cbVars

\* moveCorruptDB, second half (db.go:211-216): os.Rename.
MoveCorruptDB ==
    /\ pc = "rename"
    /\ \/ /\ Dir(corruptDBPath) \in Dirs
          /\ fs' = Rename(fs, db.path, corruptDBPath)
          /\ effects' = effects \cup {"rename"}
          /\ pc' = "open"
          /\ UNCHANGED << res, trail, faults >>
       \/ /\ faults' = faults \cup {"rename"}
          /\ Finish(NoHandle, Errorf(Err("ErrIO")))
          /\ UNCHANGED << fs, effects >>
    /\ UNCHANGED << db, open, quit, workers, run, blocksBktExist, walkVars,
                    rebuildVars, checkErr, corruptDBPath, fsStart,
                    walkCancelled,
                    closedBytes >>
    /\ UNCHANGED << quitAt, rebLog >>
    /\ UNCHANGED cbVars

\* bolt.Open on dbFile: a path that holds no file gets a new, empty store.
Create(files, path) ==
    [p \in DOMAIN files \cup {path} |->
        IF p \in DOMAIN files THEN files[p] ELSE EmptyStore]

\* OpenDB (db.go:192-202), called at db.go:188 with the mode of the old
\* handle.  A failed open may or may not have created the file.
OpenDB ==
    /\ pc = "open"
    /\ \/ /\ fs' = Create(fs, db.path)
          /\ open' = open \cup {db.id + 1}
          /\ effects' = effects \cup {"open"}
          /\ Finish(Handle(db.id + 1, db.path, db.readOnly), Nil)
          /\ UNCHANGED faults
       \/ /\ \E f \in {fs, Create(fs, db.path)} : fs' = f
          /\ faults' = faults \cup {"open"}
          /\ Finish(NoHandle, Errorf(Err("ErrIO")))
          /\ UNCHANGED << open, effects >>
    /\ UNCHANGED << db, quit, workers, run, blocksBktExist, walkVars,
                    rebuildVars, checkErr, corruptDBPath, fsStart,
                    walkCancelled,
                    closedBytes >>
    /\ UNCHANGED << quitAt, rebLog >>
    /\ UNCHANGED cbVars

(***************************************************************************)
(* The caller runs ResetCorruptDB again on the handle it got back.         *)
(***************************************************************************)
CheckAgain ==
    /\ pc = "done"
    /\ res.err = Nil
    /\ run < MaxRuns
    /\ run' = run + 1
    /\ db' = res.db
    /\ pc' = "view"
    /\ blocksBktExist' = FALSE
    /\ next' = 0
    /\ inflight' = {}
    /\ verified' = {}
    /\ walkErr' = Nil
    /\ checkErr' = Nil
    /\ corruptDBPath' = NoPath
    /\ res' = [db |-> NoHandle, err |-> Nil]
    /\ fsStart' = fs
    /\ effects' = {}
    /\ faults' = {}
    /\ walkCancelled' = FALSE
    /\ closedBytes' = EmptyStore
    /\ trail' = << "CHECKING" >>
    /\ quitAt' = IF quit THEN "before" ELSE "none"
    /\ rebLog' = << >>
    /\ gpc' = "idle"
    /\ txIdx' = EmptyIndex
    /\ i' = 0
    /\ headSeq' = 0
    /\ rebErr' = Nil
    /\ errC' = << >>
    /\ wg' = 0
    /\ UNCHANGED << fs, open, quit, workers >>
    /\ UNCHANGED cbVars

Next ==
    \/ Cancel
    \/ View
    \/ NewBlockchain
    \/ Dispatch
    \/ \E s \in 0..(MaxBlocks - 1) : WorkerFinish(s)
    \/ WalkReturn
    \/ CheckSwitch
    \/ RbBegin
    \/ RbErase
    \/ RbHeadSeq
    \/ RbLoop
    \/ RbSend
    \/ RbDone
    \/ WaitSelect
    \/ ResetSwitch
    \/ CloseDB
    \/ MakePath
    \/ MoveCorruptDB
    \/ OpenDB
    \/ CheckAgain

Spec == Init /\ [][Next]_vars

(***************************************************************************)
(* corruptedBlocks (db.go:35-60): workers call Store concurrently, a       *)
(* reader calls BlockSeqs.  The map assignment and the range loop are not  *)
(* atomic: the assignment is a read of the map followed by a write.        *)
(***************************************************************************)
\* A Store that does not take the lock.
CbLock_NoLock(w, seq) ==
    /\ cbW[w].pc = "idle"
    /\ cbW[w].left > 0
    /\ cbW' = [cbW EXCEPT ![w].pc = "load", ![w].seq = seq,
                          ![w].left = @ - 1]
    /\ cbDup' = (cbDup \/ seq \in cbStored)
    /\ UNCHANGED << cbN, cbV, cbLock, cbR, cbRet, cbStored, mainVars >>

\* db.go:46-47: Store(seq) is called and takes the lock.
CbLock(w, seq) ==
    /\ cbW[w].pc = "idle"
    /\ cbW[w].left > 0
    /\ cbLock = Unlocked
    /\ cbLock' = w
    /\ cbW' = [cbW EXCEPT ![w].pc = "load", ![w].seq = seq,
                          ![w].left = @ - 1]
    /\ cbDup' = (cbDup \/ seq \in cbStored)
    /\ UNCHANGED << cbN, cbV, cbR, cbRet, cbStored, mainVars >>

\* db.go:48: cb.v[seq] = struct{}{}, the read of the map.
CbLoad(w) ==
    /\ cbW[w].pc = "load"
    /\ cbW' = [cbW EXCEPT ![w].pc = "assign", ![w].tmp = cbV]
    /\ UNCHANGED << cbN, cbV, cbLock, cbR, cbRet, cbStored, cbDup, mainVars >>

\* db.go:48: cb.v[seq] = struct{}{}, the write of the map.
CbAssign(w) ==
    /\ cbW[w].pc = "assign"
    /\ cbV' = cbW[w].tmp \cup {cbW[w].seq}
    /\ cbW' = [cbW EXCEPT ![w].pc = "unlock", ![w].tmp = {}]
    /\ UNCHANGED << cbN, cbLock, cbR, cbRet, cbStored, cbDup, mainVars >>

\* db.go:49-50: the lock is released and Store returns.
CbUnlock(w) ==
    /\ cbW[w].pc = "unlock"
    /\ cbLock' = Unlocked
    /\ cbStored' = cbStored \cup {cbW[w].seq}
    /\ cbW' = [cbW EXCEPT ![w].pc = "idle"]
    /\ UNCHANGED << cbN, cbV, cbR, cbRet, cbDup, mainVars >>

\* The worker has made its Store calls, ends and is joined.
CbJoin(w) ==
    /\ cbW[w].pc = "idle"
    /\ cbW[w].left = 0
    /\ cbW' = [cbW EXCEPT ![w].pc = "joined"]
    /\ UNCHANGED << cbN, cbV, cbLock, cbR, cbRet, cbStored, cbDup, mainVars >>

AllJoined == \A w \in CbWorkers : cbW[w].pc = "joined"

\* db.go:52-54: BlockSeqs is called and takes the lock; seqs is nil.
BlockSeqsLock ==
    /\ cbR.pc = "idle"
    /\ cbLock = Unlocked
    /\ cbLock' = Reader
    /\ cbR' = [pc |-> "range", iter |-> cbV, seqs |-> << >>,
               joined |-> AllJoined]
    /\ UNCHANGED << cbN, cbV, cbW, cbRet, cbStored, cbDup, mainVars >>

\* db.go:55-57: one pass of the range loop; the order of a map's keys is
\* not specified.  A key put in the map meanwhile may or may not be visited.
BlockSeqsRange ==
    /\ cbR.pc = "range"
    /\ \/ \E seq \in cbR.iter :
             cbR' = [cbR EXCEPT !.iter = (@ \cup (cbV \ Range(cbR.seqs)))
                                            \ {seq},
                                !.seqs = Append(@, seq)]
       \/ /\ cbR.iter = {}
          /\ cbR' = [cbR EXCEPT !.pc = "unlock"]
    /\ UNCHANGED << cbN, cbV, cbLock, cbW, cbRet, cbStored, cbDup, mainVars >>

\* db.go:58-59: the lock is released and BlockSeqs returns seqs.
BlockSeqsUnlock ==
    /\ cbR.pc = "unlock"
    /\ cbLock' = Unlocked
    /\ cbRet' = IF cbR.joined THEN [seqs |-> cbR.seqs, joined |-> TRUE]
                             ELSE cbRet
    /\ cbR' = [pc |-> "idle", iter |-> {}, seqs |-> << >>, joined |-> FALSE]
    /\ UNCHANGED << cbN, cbV, cbW, cbStored, cbDup, mainVars >>

\* A fresh corruptedBlocks shared by 1..BlockchainVerifyTheadNum workers;
\* ResetCorruptDB is not running.
InitCB ==
    /\ InitMain
    /\ TheStore = EmptyStore
    /\ ~db.readOnly
    /\ workers = BlockchainVerifyTheadNum
    /\ \E n \in 1..BlockchainVerifyTheadNum : newCorruptedBlocks(n)

NextCB ==
    \/ \E w \in CbWorkers : \E seq \in Seqs : CbLock(w, seq)
    \/ \E w \in CbWorkers : CbLoad(w)
    \/ \E w \in CbWorkers : CbAssign(w)
    \/ \E w \in CbWorkers : CbUnlock(w)
    \/ \E w \in CbWorkers : CbJoin(w)
    \/ BlockSeqsLock
    \/ BlockSeqsRange
    \/ BlockSeqsUnlock

SpecCB == InitCB /\ [][NextCB]_vars

(***************************************************************************)
(* Properties.                                                             *)
(***************************************************************************)
\* The store the run started on.
StartStore == fsStart[db.path]

AllSigsOk(st) == \A k \in 1..Len(st.blocks) : st.blocks[k].sig = "ok"

\* A non-empty chain, every signature valid, the index consistent.
HealthyStore(st) ==
    /\ st.bkt
    /\ Len(st.blocks) > 0
    /\ AllSigsOk(st)
    /\ Consistent(st)

Done == pc = "done"

\* C1: on a non-empty chain with every signature valid and a consistent
\* index, with quit never closed and no storage call failing, CheckDatabase
\* returns nil and ResetCorruptDB returns the handle it was given, the run
\* has mutated nothing (no update, erase, close, rename or open; the
\* filesystem is what it was) and the handle is still open.  The same holds
\* of the run made right after it.
C1_HealthyStoreUntouched ==
    (Done /\ HealthyStore(StartStore) /\ ~quit /\ faults = {})
        => /\ checkErr = Nil
           /\ res = [db |-> db, err |-> Nil]
           /\ effects = {}
           /\ fs = fsStart
           /\ db.id \in open

\* A second run in a row has finished on a healthy store of MaxBlocks blocks.
C1_Witness ==
    /\ Done
    /\ run = 2
    /\ HealthyStore(StartStore)
    /\ Len(StartStore.blocks) >= 2
    /\ ~quit
    /\ faults = {}
    /\ verified = 0..(NBlocks - 1)
    /\ res.err = Nil

Last(t) == t[Len(t)]
Visited(state) == state \in Range(trail)

\* Some block's signature check reports an error.
SomeSigFault(st) == \E k \in 1..Len(st.blocks) : st.blocks[k].sig # "ok"

\* C2 (the claim as stated): when some block's signature is missing or
\* invalid, whatever error type the signature check reports, CheckDatabase
\* returns ErrCorruptDB and ResetCorruptDB enters the quarantine path.  Stated
\* for the runs in which nothing else interferes: the index is consistent,
\* quit is never closed and no storage call fails.
C2_SigFaultIsFatal ==
    (Done /\ StartStore.bkt /\ SomeSigFault(StartStore)
          /\ Consistent(StartStore) /\ ~quit /\ faults \subseteq {"open"})
        => /\ checkErr.type = "ErrCorruptDB"
           /\ Visited("QUARANTINING")

\* C3: when handleCorruptDB returns a handle and no error, the files are
\* exactly the original path and the quarantine path; the original path
\* holds a new, empty store and the returned handle is open on it with the
\* mode of the old handle; the quarantine path holds the bytes the store
\* file had when the old handle was closed.
C3_QuarantineResult ==
    (Done /\ Visited("QUARANTINING") /\ res.err = Nil)
        => /\ DOMAIN fs = {db.path, corruptDBPath}
           /\ corruptDBPath # db.path
           /\ fs[db.path] = EmptyStore
           /\ res.db.path = db.path
           /\ res.db.readOnly = db.readOnly
           /\ res.db.id \in open
           /\ res.db.id # db.id
           /\ fs[corruptDBPath] = closedBytes
           /\ closedBytes = StartStore

\* A store with a chain was quarantined and replaced.
C3_Witness ==
    /\ Done
    /\ Visited("QUARANTINING")
    /\ res.err = Nil
    /\ Len(closedBytes.blocks) >= 2
    /\ corruptDBPath \in DOMAIN fs

\* Only the index is corrupted: the chain and every signature are valid.
IndexOnlyCorrupt(st) ==
    /\ st.bkt
    /\ Len(st.blocks) > 0
    /\ AllSigsOk(st)
    /\ ~Consistent(st)

WalkFaults == {"view", "newbc", "walk"}

\* C4: on a store whose only corruption is the index, with quit never closed
\* and the check itself running without a storage failure, CheckDatabase
\* runs the rebuild; when it then returns nil, the persisted index is the
\* replay of blocks 0..head from an empty index and the chain is unchanged.
C4_RebuildRestoresIndex ==
    (Done /\ IndexOnlyCorrupt(StartStore) /\ ~quit
          /\ faults \cap WalkFaults = {})
        => /\ Visited("REPAIRING")
           /\ fs[db.path].blocks = StartStore.blocks
           /\ fs[db.path].bkt = StartStore.bkt
           /\ checkErr = Nil =>
                /\ fs[db.path].index = Replay(StartStore.blocks)
                /\ {"update", "erase", "commit"} \subseteq effects
                /\ res = [db |-> db, err |-> Nil]

\* A rebuild has repaired a two-block chain whose blocks touch the same
\* address and whose index had lost the first block's entry.
C4_Witness ==
    /\ Done
    /\ IndexOnlyCorrupt(StartStore)
    /\ Len(StartStore.blocks) >= 2
    /\ StartStore.blocks[1].addr = StartStore.blocks[2].addr
    /\ StartStore.index # EmptyIndex
    /\ ~quit
    /\ checkErr = Nil
    /\ Visited("REPAIRING")
    /\ "commit" \in effects

\* C5 (the claim as stated): when the walk ended on quit before every block
\* was verified, CheckDatabase returns nil and ResetCorruptDB does not end
\* with the healthy result.
C5_CancelledNotHealthy ==
    (Done /\ walkCancelled)
        => /\ checkErr = Nil
           /\ Last(trail) # "HEALTHY"

QuarantineFaults == {"close", "sha", "rename", "open"}

\* C6: when the fingerprint cannot be computed or the rename fails,
\* handleCorruptDB returns an error and no handle, no file is at the
\* quarantine path, and the original file is at the original path with the
\* bytes it had, held open by no handle.
C6_NoPartialQuarantine ==
    (Done /\ faults \cap {"sha", "rename"} # {})
        => /\ res.db = NoHandle
           /\ res.err # Nil
           /\ Visited("QUARANTINING")
           /\ DOMAIN fs = {db.path}
           /\ corruptDBPath \notin DOMAIN fs
           /\ fs[db.path] = closedBytes
           /\ fs = fsStart
           /\ db.id \notin open

\* The rename to a computed quarantine path has failed.
C6_Witness ==
    /\ Done
    /\ "rename" \in faults
    /\ corruptDBPath # NoPath
    /\ Dir(corruptDBPath) \in Dirs
    /\ Len(closedBytes.blocks) >= 1

\* The runs of the lifecycle state machine.
Lifecycles ==
    { << "CHECKING" >>,
      << "CHECKING", "HEALTHY" >>,
      << "CHECKING", "FAILED" >>,
      << "CHECKING", "REPAIRING" >>,
      << "CHECKING", "REPAIRING", "HEALTHY" >>,
      << "CHECKING", "REPAIRING", "FAILED" >>,
      << "CHECKING", "QUARANTINING" >>,
      << "CHECKING", "QUARANTINING", "HEALTHY" >>,
      << "CHECKING", "QUARANTINING", "FAILED" >> }

\* C7: a run starts in CHECKING and moves only along the lifecycle state
\* machine; when ResetCorruptDB has returned it is in HEALTHY with an open
\* handle and no error, or in FAILED with no handle and an error, and in
\* neither before.  HEALTHY is reached by CheckDatabase returning nil without
\* a rebuild, by a rebuild that returned nil, or by close, rename and reopen
\* all succeeding; a failed close, fingerprint, rename or open and a failed
\* rebuild end in FAILED.
C7_Lifecycle ==
    /\ trail \in Lifecycles
    /\ Done <=> Last(trail) \in {"HEALTHY", "FAILED"}
    /\ Done =>
         /\ Last(trail) = "HEALTHY" <=>
              (res.db # NoHandle /\ res.db.id \in open /\ res.err = Nil)
         /\ Last(trail) = "FAILED" <=>
              (res.db = NoHandle /\ res.err # Nil)
         /\ trail = << "CHECKING", "HEALTHY" >> =>
              (checkErr = Nil /\ res.db = db)
         /\ trail = << "CHECKING", "REPAIRING", "HEALTHY" >> =>
              (rebErr = Nil /\ checkErr = Nil /\ res.db = db)
         /\ trail = << "CHECKING", "QUARANTINING", "HEALTHY" >> =>
              /\ checkErr.type = "ErrCorruptDB"
              /\ {"close", "rename", "open"} \subseteq effects
              /\ faults \cap QuarantineFaults = {}
         /\ faults \cap QuarantineFaults # {} => Last(trail) = "FAILED"
         /\ (Visited("REPAIRING") /\ rebErr # Nil) => Last(trail) = "FAILED"

\* A run has ended in FAILED after a rebuild that failed.
C7_Witness ==
    /\ Done
    /\ trail = << "CHECKING", "REPAIRING", "FAILED" >>
    /\ rebErr # Nil
    /\ res.db = NoHandle

\* C8 (the claim as stated): a run in which a storage or filesystem call
\* failed ends with an error; in particular when the read transaction that
\* looks for the blocks bucket fails.  Stated for the runs in which quit is
\* never closed.
C8_IOErrorSurfaced ==
    (Done /\ faults # {} /\ ~quit) => res.err # Nil

\* The failure a walk in sequence order meets first.
RECURSIVE FirstFailure(_, _)
FirstFailure(st, k) ==
    IF k > Len(st.blocks) THEN Nil
    ELSE IF verifyFunc(st.index, st.blocks[k], k - 1) # Nil
           THEN verifyFunc(st.index, st.blocks[k], k - 1)
    ELSE FirstFailure(st, k + 1)

\* A walk that was not cut short by quit or by a failed read.
WalkCompleted == pc = "switch" /\ ~quit /\ "walk" \notin faults

\* With one worker the walk reports the failure met first in sequence order.
OneWorkerClass ==
    (WalkCompleted /\ workers = 1)
        => Classify(walkErr) = Classify(FirstFailure(TheStore, 1))

\* C9 (the claim as stated): on a corrupted chain the walk with
\* BlockchainVerifyTheadNum workers reports a fault and classifies it as
\* the walk with one worker does, under every interleaving.  Stated for the
\* chains whose signature faults are of type ErrMissingSignature.
C9_SameClassAnyWorkers ==
    (WalkCompleted /\ FirstFailure(TheStore, 1) # Nil
       /\ \A k \in 1..NBlocks : TheStore.blocks[k].sig # "ErrInvalidSignature")
        => /\ Classify(walkErr) \in {"FATAL", "REPAIRABLE"}
           /\ Classify(walkErr) = Classify(FirstFailure(TheStore, 1))

\* The characters of the quarantine path after <dbPath>.corrupt.
Fingerprint ==
    Slice(corruptDBPath, Len(db.path) + Len(CorruptInfix) + 1,
          Len(corruptDBPath))

\* C10 (the claim as stated): the quarantine path is the store path followed
\* by ".corrupt." and the fingerprint, in the directory of the store file; the
\* fingerprint has only characters of the URL-safe base64 alphabet and no
\* path separator.
C10_QuarantinePathSafe ==
    corruptDBPath # NoPath
        => /\ Len(corruptDBPath) > Len(db.path) + Len(CorruptInfix)
           /\ Slice(corruptDBPath, 1, Len(db.path) + Len(CorruptInfix))
                = db.path \o CorruptInfix
           /\ Range(Fingerprint) \subseteq Range(URLAlphabet)
           /\ Sep \notin Range(Fingerprint)
           /\ Dir(corruptDBPath) = Dir(db.path)

\* C11 (the claim as stated): at every point of a run exactly one store
\* handle is open.
C11_ExactlyOneHandle == Cardinality(open) = 1

\* C11 (amended): at every point of a run at most one store handle is open;
\* up to the close it is the handle the run was given; between the close and
\* the reopen none is, so the new handle is opened only after the old one was
\* closed; when ResetCorruptDB has returned without error the handle it
\* returned is the one open handle, and when it has returned an error no
\* handle but possibly the old one is open.
C11_AtMostOneHandle ==
    /\ Cardinality(open) <= 1
    /\ pc \notin {"sha", "rename", "open", "done"} => open = {db.id}
    /\ pc \in {"sha", "rename", "open"} => open = {}
    /\ (Done /\ res.err = Nil) => open = {res.db.id}
    /\ (Done /\ res.err # Nil) => open \subseteq {db.id}
    /\ (Done /\ res.err # Nil /\ "close" \in effects) => open = {}

\* A corrupted store was replaced: the old handle is closed and the new one
\* is the only open handle.
C11_Witness ==
    /\ Done
    /\ Visited("QUARANTINING")
    /\ res.err = Nil
    /\ res.db.id # db.id
    /\ open = {res.db.id}

\* C12: when the blocks bucket does not exist CheckDatabase returns nil
\* straight after the bucket lookup: the run never reaches NewBlockchain,
\* the walk, the rebuild or the quarantine; no block is handed to a worker
\* or verified, nothing is mutated, and ResetCorruptDB returns the handle it
\* was given.
C12_NoBucketNoWalk ==
    ~StartStore.bkt
        => /\ pc \in {"view", "ret", "done"}
           /\ gpc = "idle"
           /\ next = 0 /\ inflight = {} /\ verified = {}
           /\ checkErr = Nil
           /\ effects = {}
           /\ fs = fsStart
           /\ open = {db.id}
           /\ trail \in {<< "CHECKING" >>, << "CHECKING", "HEALTHY" >>}
           /\ Done => res = [db |-> db, err |-> Nil]

\* A run on a store without blocks bucket has returned.
C12_Witness ==
    /\ Done
    /\ ~StartStore.bkt
    /\ ~blocksBktExist
    /\ faults = {}
    /\ run = 1

\* The rebuild task is inside rebuildCorruptDB.
Rebuilding == gpc \in {"begin", "erase", "head", "loop"}

\* The persisted index is the replay of the first j blocks of the chain.
PrefixReplay(j) ==
    TheStore.index = Replay(SubSeq(TheStore.blocks, 1, j))

\* C13 (the claim as stated): when quit is closed during a rebuild, the
\* rebuild commits without error, CheckDatabase reports success, and the
\* persisted index is the replay of blocks 0..j-1 for some j in 0..head and
\* is not the pre-rebuild index.
C13_CancelledRebuildPrefix ==
    (Done /\ quitAt = "rebuild" /\ faults = {})
        => /\ checkErr = Nil
           /\ "commit" \in effects
           /\ \E j \in 0..headSeq : PrefixReplay(j)
           /\ TheStore.index # StartStore.index

\* C13 (amended): when quit is closed during a rebuild and no storage call
\* fails, rebuildCorruptDB returns nil and its write transaction commits;
\* the persisted index is the replay of blocks 0..i-1, i being the number of
\* blocks parsed, with 0 <= i <= head + 1 (i = head + 1, the full replay,
\* when quit is closed after the last pass of the loop took its default
\* branch); CheckDatabase returns nil and ResetCorruptDB returns the handle.
C13_CancelledRebuildCommits ==
    /\ (quitAt = "rebuild" /\ faults = {} /\ ~Rebuilding)
          => /\ rebErr = Nil
             /\ "commit" \in effects
             /\ i \in 0..(headSeq + 1)
             /\ PrefixReplay(i)
             /\ Last(rebLog) = Op("commit", 0)
    /\ (quitAt = "rebuild" /\ faults = {} /\ Done)
          => /\ checkErr = Nil
             /\ res = [db |-> db, err |-> Nil]

\* A rebuild of a two-block chain was cancelled after block 0 was parsed and
\* committed the index of block 0 alone.
C13_Witness ==
    /\ Done
    /\ quitAt = "rebuild"
    /\ faults = {}
    /\ NBlocks = 2
    /\ i = 1
    /\ "commit" \in effects
    /\ PrefixReplay(1)
    /\ ~PrefixReplay(2)

\* The failures of the rebuild's closure the code returns from.
RebuildFaults == {"erase", "headseq", "getblock", "parseblock"}

\* C14: when the erase, the head lookup, a block fetch or the index builder
\* fails during a rebuild, the write transaction is rolled back: the store
\* file is as it was when the run started, nothing is committed, the
\* rebuild's error is what CheckDatabase returns, and ResetCorruptDB returns
\* it with no handle, without closing, renaming or reopening the store.
C14_RebuildFailureRollsBack ==
    /\ (faults \cap RebuildFaults # {} \/ rebErr.type = "ErrNoHead")
          => /\ fs = fsStart
             /\ "commit" \notin effects
             /\ rebErr # Nil
             /\ Last(rebLog) = Op("abort", 0)
             /\ open = {db.id}
    /\ (Done /\ (faults \cap RebuildFaults # {} \/ rebErr.type = "ErrNoHead"))
          => /\ checkErr = rebErr
             /\ res = [db |-> NoHandle, err |-> rebErr]
             /\ Last(trail) = "FAILED"
             /\ ~Visited("QUARANTINING")
             /\ effects \cap {"close", "rename", "open"} = {}

\* The index builder failed on block 1 after block 0 was parsed, on a store
\* whose index was not empty.
C14_Witness ==
    /\ Done
    /\ "parseblock" \in faults
    /\ i = 1
    /\ "erase" \in effects
    /\ StartStore.index # EmptyIndex
    /\ StartStore.index # Replay(SubSeq(StartStore.blocks, 1, 1))
    /\ res.err = Err("ErrIO")

\* C15: on a REPAIRABLE classification CheckDatabase returns only after the
\* rebuild task has finished, and returns the rebuild's result: when the
\* wait group is released the channel holds exactly that result, so the
\* receive finds it and the default branch is not taken.
C15_AwaitsRebuild ==
    /\ (pc = "wait" /\ wg = 0) => (errC = << rebErr >> /\ gpc = "idle")
    /\ (pc = "wait" /\ gpc \in {"defer", "idle"}) => errC = << rebErr >>
    /\ (Visited("REPAIRING") /\ pc # "wait")
          => /\ gpc = "idle"
             /\ wg = 0
             /\ errC = << >>
             /\ checkErr = rebErr

\* CheckDatabase has returned the error of a failed rebuild.
C15_Witness ==
    /\ pc = "ret"
    /\ Visited("REPAIRING")
    /\ rebErr # Nil
    /\ checkErr = rebErr

\* C16: within one rebuild there is one write transaction; the erase is its
\* first operation, before any block is parsed; the blocks are then parsed
\* in the order 0, 1, ..., each once and none skipped, up to head at most;
\* a commit or a rollback is the last operation; nothing reaches the store
\* file before the commit.
C16_RebuildOrder ==
    /\ rebLog # << >> =>
          /\ rebLog[1] = Op("begin", 0)
          /\ \A k \in 2..Len(rebLog) :
                /\ rebLog[k].op # "begin"
                /\ rebLog[k].op = "erase" <=> (k = 2 /\ rebLog[k].op # "abort")
                /\ rebLog[k].op = "parse"
                      => (k >= 3 /\ rebLog[k].seq = k - 3
                            /\ rebLog[k].seq <= NBlocks - 1)
                /\ rebLog[k].op \in {"commit", "abort"} => k = Len(rebLog)
          /\ Len(rebLog) <= NBlocks + 3
    /\ gpc \in {"erase", "head", "loop"} => fs = fsStart
    /\ (gpc = "loop" /\ rebLog # << >>) => Len(rebLog) = i + 2

\* A two-block chain was rebuilt in full.
C16_Witness ==
    rebLog = << Op("begin", 0), Op("erase", 0), Op("parse", 0), Op("parse", 1),
                Op("commit", 0) >>

\* The walk ended with an error the type switch has no case for.
OtherWalkErr ==
    walkErr.type \notin {"nil", "ErrMissingSignature", "ErrHistoryDBCorrupted"}

\* C17: the store is closed, renamed or reopened only when the walk ended
\* with ErrMissingSignature; a write transaction is begun and the index
\* erased or committed only when it ended with ErrHistoryDBCorrupted; for
\* any other walk error CheckDatabase and ResetCorruptDB return that very
\* error, nothing is mutated and the handle the run was given stays open.
C17_MutationsMatchClass ==
    /\ (effects \cap {"close", "rename", "open"} # {} \/ Visited("QUARANTINING"))
          => walkErr.type = "ErrMissingSignature"
    /\ (effects \cap {"update", "erase", "commit"} # {} \/ Visited("REPAIRING"))
          => walkErr.type = "ErrHistoryDBCorrupted"
    /\ fs # fsStart
          => walkErr.type \in {"ErrMissingSignature", "ErrHistoryDBCorrupted"}
    /\ (OtherWalkErr /\ pc \in {"ret", "done"})
          => /\ checkErr = walkErr
             /\ effects = {}
             /\ fs = fsStart
             /\ open = {db.id}
             /\ gpc = "idle" /\ rebLog = << >>
    /\ (OtherWalkErr /\ Done)
          => /\ res = [db |-> NoHandle, err |-> walkErr]
             /\ trail = << "CHECKING", "FAILED" >>

\* A run whose walk ended with an error of another type has returned.
C17_Witness ==
    /\ Done
    /\ OtherWalkErr
    /\ res.err = walkErr
    /\ db.id \in open

\* The workers, or the reader, inside the section the lock guards.
InSection(w) == cbW[w].pc \in {"load", "assign", "unlock"}
ReaderInSection == cbR.pc \in {"range", "unlock"}

\* C18: for 1..BlockchainVerifyTheadNum workers calling Store in any
\* interleaving, Store and BlockSeqs touch the map only while holding the
\* lock, at most one of them at a time; the sequence number of every Store
\* that has returned is in the map and the map holds nothing else; and a
\* BlockSeqs called once all workers have joined returns the stored
\* sequence numbers, each exactly once (as does any BlockSeqs for the map
\* as it is during the call).
C18_StoreIsThreadSafe ==
    /\ \A w \in CbWorkers : InSection(w) => cbLock = w
    /\ ReaderInSection => cbLock = Reader
    /\ \A w1, w2 \in CbWorkers : (InSection(w1) /\ InSection(w2)) => w1 = w2
    /\ \A w \in CbWorkers : ~(InSection(w) /\ ReaderInSection)
    /\ cbStored \subseteq cbV
    /\ cbV \subseteq cbStored \cup {cbW[w].seq : w \in {x \in CbWorkers : InSection(x)}}
    /\ AllJoined => cbV = cbStored
    /\ cbRet.joined
          => /\ Range(cbRet.seqs) = cbStored
             /\ Len(cbRet.seqs) = Cardinality(cbStored)
    /\ cbR.pc = "unlock"
          => /\ Range(cbR.seqs) = cbV
             /\ Len(cbR.seqs) = Cardinality(cbV)

\* Several workers stored both sequence numbers, one of them more than
\* once; all joined, and BlockSeqs then returned the two.
C18_Witness ==
    /\ cbN = BlockchainVerifyTheadNum
    /\ AllJoined
    /\ \A w \in CbWorkers : cbW[w].left = 0
    /\ cbDup
    /\ cbRet.joined
    /\ Len(cbRet.seqs) = 2
    /\ Range(cbRet.seqs) = cbStored

\* The canonical chain data of a store file: the blocks bucket.
ChainOf(st) == [bkt |-> st.bkt, blocks |-> st.blocks]

\* C19 (the claim as stated): in every state of a run the store file the run
\* started on exists, byte for byte, at the original path or at the
\* quarantine path.
C19_OriginalBytesKept ==
    \E p \in {db.path, corruptDBPath} \cap DOMAIN fs : fs[p] = StartStore

\* Where the file the run started on is: at the quarantine path once it was
\* renamed, at the original path before.
OriginalAt == IF "rename" \in effects THEN corruptDBPath ELSE db.path

\* C19 (amended): in every state of a run, failure paths included, the file
\* the run started on is at the original path or, once renamed, at the
\* quarantine path, with its chain data as it was; its bytes are as they
\* were unless a rebuild committed, which rewrites the derived index alone;
\* a quarantined file is never a rebuilt one, and the files quarantined by
\* earlier runs stay as they are.
C19_ChainDataKept ==
    /\ OriginalAt \in DOMAIN fs
    /\ ChainOf(fs[OriginalAt]) = ChainOf(StartStore)
    /\ "commit" \notin effects => fs[OriginalAt] = StartStore
    /\ "rename" \in effects => "commit" \notin effects
    /\ \A p \in DOMAIN fsStart \ {db.path} : p \in DOMAIN fs /\ fs[p] = fsStart[p]

\* The reopen failed after the store with its chain was renamed: the file is
\* at the quarantine path, unmodified.
C19_Witness ==
    /\ Done
    /\ "rename" \in effects
    /\ "open" \in faults
    /\ Len(StartStore.blocks) > 0
    /\ corruptDBPath \in DOMAIN fs
    /\ fs[corruptDBPath] = StartStore

\* C20: whenever ResetCorruptDB returns a handle and no error, in a run
\* whose walk was not cut short by quit and in which no storage call failed,
\* the store at the handle's path has no chain or its index is the replay
\* of its chain.
C20_HealthyIsConsistent ==
    (Done /\ res.err = Nil /\ ~walkCancelled /\ faults = {})
        => LET st == fs[res.db.path]
           IN  \/ ~st.bkt
               \/ st.blocks = << >>
               \/ Consistent(st)

====
